---- MODULE Spec2Model ----
(***************************************************************************)
(* DNSResolver (src/plugins/dns-operation/dnsResolver.js): one resolver    *)
(* instance serving calls one after the other.  A call enters through      *)
(* RethinkModule, resolveDns, resolveDnsUpstream or decodeResponse.        *)
(*                                                                         *)
(* JS strings are sequences of one-character strings; a JS value that may  *)
(* be a string or an array is [kind, val].  Promises are [st, val, err].   *)
(***************************************************************************)
EXTENDS Integers, Sequences, FiniteSets, TLC

VARIABLES
  env,        \* envutil: runtime, dohResolver(), secondaryDohResolver()
  http2,      \* this.http2 is set
  nodeUtil,   \* this.nodeUtil is set
  transport,  \* this.transport is set
  preferredDohResolvers, \* this.preferredDohResolvers
  calls,      \* number of calls started on this instance
  pc,         \* position of the current call
  entry,      \* the method the current call entered through
  param,      \* the current call's arguments
  upstreams,  \* resolverUrls handed to resolveDnsUpstream
  attempts,   \* promisedRes[1..]: the dispatched upstream attempts
  sentinel,   \* promisedRes[0]: "none" | "raced" | "unhandled"
  netlog,     \* network operations started by the current call, in order
  replies,    \* what the transport's queries came back with, in order
  upRes,      \* the promise resolveDnsUpstream returned
  parsed,     \* arguments dnsutil.decode was called with, in order
  dnsRes,     \* the promise resolveDns / decodeResponse returned
  response,   \* what RethinkModule returned (or that it threw)
  lz,         \* concurrent RethinkModule callers inside lazyInit
  h2          \* one doh2 call: its connection, stream and promise

vars == <<env, http2, nodeUtil, transport, preferredDohResolvers, calls, pc,
          entry, param, upstreams, attempts, sentinel, netlog, replies, upRes,
          parsed, dnsRes, response, lz, h2>>

-----------------------------------------------------------------------------
(* Bounds *)
MaxCalls == 2
MaxUrls == 2
MaxCallers == 2
MaxChunks == 2

-----------------------------------------------------------------------------
(* Strings and URLs *)
EmptyStr == <<>>
BlankStr == <<" ">>
PrimaryUrl == <<"s", ":", "a">>
SecondaryUrl == <<"s", ":", "b">>
UserUrl == <<"s", ":", "c">>
BadUrl == <<"c">>

Queries == {<<1>>, <<2, 3>>}
Methods == {"GET", "POST", "PUT"}

\* util.emptyString: null, empty, or nothing but white space
emptyString(s) == \A i \in 1..Len(s) : s[i] = " "

\* new URL(s) succeeds: an absolute URL has a scheme, a colon and a host
validURL(s) == Len(s) >= 3 /\ s[1] # " " /\ s[1] # ":" /\ s[2] = ":" /\ s[3] # " "

\* (new URL(s)).hostname
hostname(s) == s[3]

Arr(items) == [kind |-> "array", val |-> items]
Str(chars) == [kind |-> "string", val |-> chars]

\* util.emptyArray: a falsy value or an array of length 0
emptyArray(a) == Len(a.val) = 0

\* for (const rurl of resolverUrls): the elements of an array, the
\* one-character strings of a string
iterate(a) ==
  IF a.kind = "array" THEN a.val
  ELSE [i \in 1..Len(a.val) |-> <<a.val[i]>>]

-----------------------------------------------------------------------------
(* Answers, responses, errors, promises *)
NoAns == [src |-> "none", tc |-> FALSE, wf |-> FALSE]
Ans(src, tc, wf) == [src |-> src, tc |-> tc, wf |-> wf]

\* dnsutil.truncated
truncated(ans) == ans.tc

NullResponse == [null |-> TRUE, status |-> 0, statusText |-> "", body |-> NoAns]
StatusText(status) ==
  IF status = 200 THEN "OK"
  ELSE IF status = 503 THEN "Service Unavailable"
  ELSE "Internal Server Error"
Response(status, body) ==
  [null |-> FALSE, status |-> status, statusText |-> StatusText(status),
   body |-> body]

\* Response.ok
ok(r) == r.status >= 200 /\ r.status <= 299

\* util.respond503
respond503 == Response(503, NoAns)

NoErr == [msg |-> "", status |-> 0, statusText |-> ""]
Err(msg) == [msg |-> msg, status |-> 0, statusText |-> ""]

Pending == [st |-> "pending", val |-> NullResponse, err |-> NoErr]
Fulfilled(r) == [st |-> "fulfilled", val |-> r, err |-> NoErr]
Rejected(e) == [st |-> "rejected", val |-> NullResponse, err |-> e]

\* the error decodeResponse throws on a non-success status:
\* response.status + " http err: " + response.statusText
HttpErr(r) == [msg |-> "http err", status |-> r.status, statusText |-> r.statusText]

\* dnsutil.decode: the structured message parsed from the wire bytes
NoPacket == [id |-> "none", flags |-> ""]
decode(body) == [id |-> body.src, flags |-> IF body.tc THEN "TC" ELSE ""]

\* util.emptyResponse().data
NoData == [dnsPacket |-> NoPacket, dnsBuffer |-> NoAns]
Data(packet, buffer) == [dnsPacket |-> packet, dnsBuffer |-> buffer]

NoDnsRes == [st |-> "pending", val |-> NoData, err |-> NoErr]
FulfilledD(d) == [st |-> "fulfilled", val |-> d, err |-> NoErr]
RejectedD(e) == [st |-> "rejected", val |-> NoData, err |-> e]

NoParam ==
  [method |-> "GET", query |-> <<1>>, userDnsResolverUrl |-> EmptyStr,
   resolverUrls |-> Arr(<<>>), response |-> NullResponse]

NoResponse == [returned |-> FALSE, thrown |-> FALSE, isException |-> FALSE,
               data |-> NoData]
\* util.emptyResponse with response.data assigned
DataResponse(d) == [returned |-> TRUE, thrown |-> FALSE, isException |-> FALSE,
                    data |-> d]
\* util.errResponse
errResponse == [returned |-> TRUE, thrown |-> FALSE, isException |-> TRUE,
                data |-> NoData]
\* the promise RethinkModule returned was rejected
Thrown == [returned |-> FALSE, thrown |-> TRUE, isException |-> FALSE,
           data |-> NoData]

-----------------------------------------------------------------------------
(* constructor *)
\* no caller is inside lazyInit, nothing was assigned or constructed
Callers == 1..MaxCallers
NoLazy ==
  [at |-> [c \in Callers |-> "idle"],
   assigned |-> [http2 |-> 0, nodeUtil |-> 0, transport |-> 0],
   constructed |-> 0]

\* the promise doh2 returns: pending, resolved with new Response(rb, h),
\* or rejected with a message
Unsettled == [st |-> "pending", status |-> 0, rb |-> <<>>, msg |-> ""]
Resolved(status, rb) == [st |-> "fulfilled", status |-> status, rb |-> rb, msg |-> ""]
RejectedWith(msg) == [st |-> "rejected", status |-> 0, rb |-> <<>>, msg |-> msg]

NoRequest == [method |-> "", pathname |-> <<>>, search |-> <<>>, body |-> <<>>]

\* doh2 was not called: no connection, no stream, nothing done (ops), no
\* event seen, no handler registered
NoDoh2 ==
  [pc |-> "idle", request |-> NoRequest, c |-> "none", req |-> "none",
   ops |-> <<>>, events |-> <<>>, handlers |-> {},
   wire |-> [method |-> "", path |-> <<>>, body |-> <<>>],
   headers |-> 0, b |-> <<>>, p |-> Unsettled]

Init ==
  /\ env \in [runtime : {"node", "workers", "deno"},
              dohResolver : {EmptyStr, PrimaryUrl},
              secondaryDohResolver : {EmptyStr, SecondaryUrl}]
  /\ http2 = FALSE
  /\ nodeUtil = FALSE
  /\ transport = FALSE
  /\ preferredDohResolvers = <<env.dohResolver, env.secondaryDohResolver>>
  /\ calls = 0
  /\ pc = "idle"
  /\ entry = "none"
  /\ param = NoParam
  /\ upstreams = Arr(<<>>)
  /\ attempts = <<>>
  /\ sentinel = "none"
  /\ netlog = <<>>
  /\ replies = <<>>
  /\ upRes = Pending
  /\ parsed = <<>>
  /\ dnsRes = NoDnsRes
  /\ response = NoResponse
  /\ lz = NoLazy
  /\ h2 = NoDoh2

isNode == env.runtime = "node"
isWorkers == env.runtime = "workers"

-----------------------------------------------------------------------------
(* A call starts *)
UrlPool == {PrimaryUrl, BlankStr, BadUrl}
UrlLists == UNION {[1..n -> UrlPool] : n \in 0..MaxUrls}
UserUrls == {EmptyStr, BlankStr, UserUrl, BadUrl}
Responses ==
  {NullResponse, respond503, Response(500, NoAns)}
    \cup {Response(200, Ans("direct", FALSE, wf)) : wf \in BOOLEAN}

Params(e) ==
  IF e = "resolveDnsUpstream" THEN
    {[NoParam EXCEPT !.method = m, !.query = q, !.resolverUrls = Arr(l)] :
       m \in Methods, q \in Queries, l \in UrlLists}
  ELSE IF e = "decodeResponse" THEN
    {[NoParam EXCEPT !.response = r] : r \in Responses}
  ELSE
    {[NoParam EXCEPT !.method = m, !.query = q, !.userDnsResolverUrl = u] :
       m \in Methods, q \in Queries, u \in UserUrls}

FirstPc(e) ==
  IF e = "RethinkModule" THEN "lazy_http2"
  ELSE IF e = "decodeResponse" THEN "decode"
  ELSE e

NewCall(e, p) ==
  /\ pc = "idle"
  /\ calls < MaxCalls
  /\ calls' = calls + 1
  /\ entry' = e
  /\ param' = p
  /\ pc' = FirstPc(e)
  /\ UNCHANGED <<upstreams, attempts, sentinel, netlog, replies, upRes, parsed,
                 dnsRes, response>>
  /\ UNCHANGED <<env, http2, nodeUtil, transport, preferredDohResolvers, lz, h2>>

\* the caller has the call's result and lets go of it; only the instance's
\* fields live on to the next call
EndCall ==
  /\ pc = "done"
  /\ pc' = "idle"
  /\ entry' = "none"
  /\ param' = NoParam
  /\ upstreams' = Arr(<<>>)
  /\ attempts' = <<>>
  /\ sentinel' = "none"
  /\ netlog' = <<>>
  /\ replies' = <<>>
  /\ upRes' = Pending
  /\ parsed' = <<>>
  /\ dnsRes' = NoDnsRes
  /\ response' = NoResponse
  /\ UNCHANGED <<env, http2, nodeUtil, transport, preferredDohResolvers, calls,
                 lz, h2>>

-----------------------------------------------------------------------------
(* lazyInit, one step per await *)
UNCHANGED_call ==
  UNCHANGED <<env, preferredDohResolvers, calls, entry, param, upstreams,
              attempts, sentinel, netlog, replies, upRes, parsed, dnsRes,
              lz, h2>>

\* variant: http2 is imported on every runtime
LazyHttp2_anyRuntime ==
  /\ pc = "lazy_http2"
  /\ http2' = TRUE
  /\ pc' = "lazy_nodeutil"
  /\ UNCHANGED <<nodeUtil, transport, response>>
  /\ UNCHANGED_call

\* "http2" is a builtin of Node: its import does not fail
LazyHttp2 ==
  /\ pc = "lazy_http2"
  /\ http2' = (http2 \/ isNode)
  /\ pc' = "lazy_nodeutil"
  /\ UNCHANGED <<nodeUtil, transport, response>>
  /\ UNCHANGED_call

LazyNodeUtil(imported) ==
  /\ pc = "lazy_nodeutil"
  /\ IF isNode /\ ~nodeUtil
       THEN IF imported
              THEN nodeUtil' = TRUE /\ pc' = "lazy_transport" /\ UNCHANGED response
              ELSE UNCHANGED nodeUtil /\ pc' = "done" /\ response' = Thrown
       ELSE imported /\ UNCHANGED <<nodeUtil, response>> /\ pc' = "lazy_transport"
  /\ UNCHANGED <<http2, transport>>
  /\ UNCHANGED_call

LazyTransport(imported) ==
  /\ pc = "lazy_transport"
  /\ IF isNode /\ ~transport
       THEN IF imported
              THEN transport' = TRUE /\ pc' = "resolveDns" /\ UNCHANGED response
              ELSE UNCHANGED transport /\ pc' = "done" /\ response' = Thrown
       ELSE imported /\ UNCHANGED <<transport, response>> /\ pc' = "resolveDns"
  /\ UNCHANGED <<http2, nodeUtil>>
  /\ UNCHANGED_call

-----------------------------------------------------------------------------
(* determineDohResolvers *)
\* variant: the user's resolver is looked at before the transport
determineDohResolvers_userFirst(p) ==
  IF ~emptyString(p.userDnsResolverUrl) THEN Arr(<<p.userDnsResolverUrl>>)
  ELSE IF transport THEN Arr(<<>>)
  ELSE IF isWorkers THEN Arr(preferredDohResolvers)
  ELSE Str(env.dohResolver)

determineDohResolvers(p) ==
  IF transport THEN Arr(<<>>)
  ELSE IF ~emptyString(p.userDnsResolverUrl) THEN Arr(<<p.userDnsResolverUrl>>)
  ELSE IF isWorkers THEN Arr(preferredDohResolvers)
  ELSE Str(env.dohResolver)

-----------------------------------------------------------------------------
(* resolveDnsUpstream *)
\* bufutil.bufferOf: a Buffer over the same bytes
bufferOf(query) == [i \in 1..Len(query) |-> query[i]]

NetOp(kind, to, bytes) == [kind |-> kind, to |-> to, bytes |-> bytes]

AfterUpstream == IF entry = "resolveDnsUpstream" THEN "done" ELSE "decode"

\* (new URL(s)).pathname: "/" when the URL has nothing after its host
pathname(s) == IF Len(s) <= 3 THEN <<"/">> ELSE SubSeq(s, 4, Len(s))

\* the base64url alphabet
B64 == <<"A","B","C","D","E","F","G","H","I","J","K","L","M","N","O","P",
         "Q","R","S","T","U","V","W","X","Y","Z","a","b","c","d","e","f",
         "g","h","i","j","k","l","m","n","o","p","q","r","s","t","u","v",
         "w","x","y","z","0","1","2","3","4","5","6","7","8","9","-","_">>

\* bufutil.bytesToBase64Url: four characters for three bytes, no padding
RECURSIVE bytesToBase64Url(_)
bytesToBase64Url(b) ==
  IF Len(b) = 0 THEN <<>>
  ELSE IF Len(b) = 1
    THEN <<B64[(b[1] \div 4) + 1], B64[((b[1] % 4) * 16) + 1]>>
  ELSE IF Len(b) = 2
    THEN <<B64[(b[1] \div 4) + 1],
           B64[((b[1] % 4) * 16 + (b[2] \div 16)) + 1],
           B64[((b[2] % 16) * 4) + 1]>>
  ELSE <<B64[(b[1] \div 4) + 1],
         B64[((b[1] % 4) * 16 + (b[2] \div 16)) + 1],
         B64[((b[2] % 16) * 4 + (b[3] \div 64)) + 1],
         B64[(b[3] % 64) + 1]>>
       \o bytesToBase64Url(SubSeq(b, 4, Len(b)))

\* the search of the incoming request's URL, which a POST keeps
RequestSearch == <<>>

\* dnsreq: new Request(u.href, ...) for GET (u.search = "?dns=" + ...) and
\* for POST (body: query), u taking its pathname from rurl
dnsreq(rurl, method, query) ==
  [method |-> method,
   pathname |-> pathname(rurl),
   search |-> IF method = "GET"
                THEN <<"?", "d", "n", "s", "=">> \o bytesToBase64Url(query)
                ELSE RequestSearch,
   body |-> IF method = "POST" THEN query ELSE <<>>]

\* what fetch(dnsreq) sends: the method, the URL's path and search, the body
fetchWire(req) ==
  [method |-> req.method, path |-> req.pathname \o req.search, body |-> req.body]

\* what doh2 sends: :method request.method, :path u.pathname, and
\* req.end(upstreamQuery) with the bytes of request.arrayBuffer()
doh2Wire(req) ==
  [method |-> req.method, path |-> req.pathname, body |-> bufferOf(req.body)]

\* this.http2 ? this.doh2(rxid, dnsreq) : fetch(dnsreq); doh2 throws at
\* once when http2 or nodeUtil is missing
Attempt(rurl, method, query) ==
  [rurl |-> rurl, to |-> hostname(rurl), method |-> method, bytes |-> query,
   client |-> IF http2 THEN "doh2" ELSE "fetch",
   wire |-> IF http2 THEN doh2Wire(dnsreq(rurl, method, query))
            ELSE fetchWire(dnsreq(rurl, method, query)),
   p |-> IF http2 /\ ~nodeUtil THEN Rejected(Err("h2 / node-util not setup, bailing"))
         ELSE Pending]

\* variant: the final else branch builds a request as for POST
supportedMethod_any(method) == TRUE

\* util.isGetRequest(request) || util.isPostRequest(request)
supportedMethod(method) == method \in {"GET", "POST"}

\* variant: a blank URL is handed to new URL, which throws
RECURSIVE Loop_blankThrows(_, _, _, _, _)
Loop_blankThrows(rurls, i, method, query, pushed) ==
  IF i > Len(rurls) THEN [exit |-> "any", pushed |-> pushed]
  ELSE IF ~validURL(rurls[i]) THEN [exit |-> "url", pushed |-> pushed]
  ELSE IF ~supportedMethod(method) THEN [exit |-> "method", pushed |-> pushed]
  ELSE Loop_blankThrows(rurls, i + 1, method, query,
                        Append(pushed, Attempt(rurls[i], method, query)))

\* the for loop over resolverUrls, from its i-th element on, with the
\* attempts pushed so far: it runs to the end ("any"), returns the
\* rejection of an unsupported method ("method") or throws at new URL ("url")
RECURSIVE Loop(_, _, _, _, _)
Loop(rurls, i, method, query, pushed) ==
  IF i > Len(rurls) THEN [exit |-> "any", pushed |-> pushed]
  ELSE IF emptyString(rurls[i]) THEN Loop(rurls, i + 1, method, query, pushed)
  ELSE IF ~validURL(rurls[i]) THEN [exit |-> "url", pushed |-> pushed]
  ELSE IF ~supportedMethod(method) THEN [exit |-> "method", pushed |-> pushed]
  ELSE Loop(rurls, i + 1, method, query,
            Append(pushed, Attempt(rurls[i], method, query)))

\* the exchanges the pushed attempts started
Started(pushed) ==
  LET live == SelectSeq(pushed, LAMBDA a : a.p.st = "pending")
  IN [i \in 1..Len(live) |-> NetOp(live[i].client, live[i].to, live[i].bytes)]

AllRejected(as) == \A i \in 1..Len(as) : as[i].p.st = "rejected"

\* Promise.any over the sentinel and the attempts, before any settles
PromiseAny(pushed) ==
  IF AllRejected(pushed) THEN Rejected(Err("AggregateError")) ELSE Pending

\* the synchronous part of resolveDnsUpstream(rxid, request, urls, query)
resolveDnsUpstream(urls) ==
  IF emptyArray(urls)
    THEN IF transport
      THEN /\ netlog' = Append(netlog, NetOp("udp", "dns", bufferOf(param.query)))
           /\ pc' = "udp"
           /\ UNCHANGED <<attempts, sentinel, upRes>>
      ELSE \* TypeError: this.transport is null
           /\ upRes' = Rejected(Err("TypeError"))
           /\ pc' = AfterUpstream
           /\ UNCHANGED <<attempts, sentinel, netlog>>
    ELSE LET l == Loop(iterate(urls), 1, param.method, param.query, <<>>) IN
         /\ attempts' = l.pushed
         /\ netlog' = netlog \o Started(l.pushed)
         /\ sentinel' = IF l.exit = "any" THEN "raced" ELSE "unhandled"
         /\ upRes' = IF l.exit = "any" THEN PromiseAny(l.pushed)
                     ELSE IF l.exit = "method"
                       THEN Rejected(Err("get/post requests only"))
                     ELSE Rejected(Err("TypeError"))
         /\ pc' = IF upRes'.st = "pending" THEN "race" ELSE AfterUpstream

UNCHANGED_inst ==
  UNCHANGED <<env, http2, nodeUtil, transport, preferredDohResolvers, calls,
              entry, param, lz, h2>>

\* resolveDns up to its first await
CallResolveDns ==
  /\ pc = "resolveDns"
  /\ upstreams' = determineDohResolvers(param)
  /\ resolveDnsUpstream(upstreams')
  /\ UNCHANGED <<replies, parsed, dnsRes, response>>
  /\ UNCHANGED_inst

\* resolveDnsUpstream called by itself
CallResolveDnsUpstream ==
  /\ pc = "resolveDnsUpstream"
  /\ upstreams' = param.resolverUrls
  /\ resolveDnsUpstream(upstreams')
  /\ UNCHANGED <<replies, parsed, dnsRes, response>>
  /\ UNCHANGED_inst

\* what a query of the transport comes back with: no answer, an answer
\* (truncated or not, well-formed or not), or an error
TransportOutcomes(src) ==
  {[threw |-> FALSE, ans |-> NoAns], [threw |-> TRUE, ans |-> NoAns]}
    \cup {[threw |-> FALSE, ans |-> Ans(src, tc, wf)] : tc, wf \in BOOLEAN}

HasAns(o) == o.ans.src # "none"

\* variant: a missing answer is thrown as an error
PlainResult_throws(o) ==
  IF o.threw \/ o.ans.src = "none" THEN Rejected(Err("transport error"))
  ELSE Fulfilled(Response(200, o.ans))

\* return ans ? new Response(bufutil.arrayBufferOf(ans)) : util.respond503()
PlainResult(o) ==
  IF o.threw THEN Rejected(Err("transport error"))
  ELSE IF HasAns(o) THEN Fulfilled(Response(200, o.ans))
  ELSE Fulfilled(respond503)

\* variant: a truncated answer is not retried
UdpSettle_noRetry(o) ==
  /\ pc = "udp"
  /\ replies' = Append(replies, o)
  /\ upRes' = PlainResult(o)
  /\ pc' = AfterUpstream
  /\ UNCHANGED <<upstreams, attempts, sentinel, netlog, parsed, dnsRes, response>>
  /\ UNCHANGED_inst

\* variant: any answer is retried over TCP, truncated or not
UdpSettle_alwaysTcp(o) ==
  /\ pc = "udp"
  /\ replies' = Append(replies, o)
  /\ IF ~o.threw /\ HasAns(o)
       THEN /\ netlog' = Append(netlog, NetOp("tcp", "dns", bufferOf(param.query)))
            /\ pc' = "tcp"
            /\ UNCHANGED upRes
       ELSE /\ upRes' = PlainResult(o)
            /\ pc' = AfterUpstream
            /\ UNCHANGED netlog
  /\ UNCHANGED <<upstreams, attempts, sentinel, parsed, dnsRes, response>>
  /\ UNCHANGED_inst

\* await this.transport.udpquery(rxid, q) returns
UdpSettle(o) ==
  /\ pc = "udp"
  /\ replies' = Append(replies, o)
  /\ IF ~o.threw /\ HasAns(o) /\ truncated(o.ans)
       THEN /\ netlog' = Append(netlog, NetOp("tcp", "dns", bufferOf(param.query)))
            /\ pc' = "tcp"
            /\ UNCHANGED upRes
       ELSE /\ upRes' = PlainResult(o)
            /\ pc' = AfterUpstream
            /\ UNCHANGED netlog
  /\ UNCHANGED <<upstreams, attempts, sentinel, parsed, dnsRes, response>>
  /\ UNCHANGED_inst

\* await this.transport.tcpquery(rxid, q) returns
TcpSettle(o) ==
  /\ pc = "tcp"
  /\ replies' = Append(replies, o)
  /\ upRes' = PlainResult(o)
  /\ pc' = AfterUpstream
  /\ UNCHANGED <<upstreams, attempts, sentinel, netlog, parsed, dnsRes, response>>
  /\ UNCHANGED_inst

\* what an upstream attempt settles with
AttemptOutcomes(i) ==
  {Rejected(Err("upstream error")), Fulfilled(Response(500, NoAns))}
    \cup {Fulfilled(Response(200, Ans("up" \o ToString(i), FALSE, wf))) :
            wf \in BOOLEAN}

\* variant: Promise.race, the first settlement wins
AnySettle_race(race, o, as) ==
  IF race.st # "pending" THEN race ELSE o

\* variant: the last rejection leaves the race pending
AnySettle_noReject(race, o, as) ==
  IF race.st # "pending" THEN race
  ELSE IF o.st = "fulfilled" THEN o
  ELSE race

\* Promise.any when one of its promises settles with o, the attempts then
\* being as: the first fulfilment wins; the last rejection rejects
AnySettle(race, o, as) ==
  IF race.st # "pending" THEN race
  ELSE IF o.st = "fulfilled" THEN o
  ELSE IF AllRejected(as) THEN Rejected(Err("AggregateError"))
  ELSE race

\* attempt i (a fetch or a doh2 exchange) settles
SettleAttempt(i, o) ==
  /\ i \in 1..Len(attempts)
  /\ attempts[i].p.st = "pending"
  /\ attempts' = [attempts EXCEPT ![i].p = o]
  /\ IF sentinel = "raced"
       THEN /\ upRes' = AnySettle(upRes, o, attempts')
            /\ pc' = IF pc = "race" /\ upRes'.st # "pending"
                       THEN AfterUpstream ELSE pc
       ELSE UNCHANGED <<upRes, pc>>
  /\ UNCHANGED <<upstreams, sentinel, netlog, replies, parsed, dnsRes, response>>
  /\ UNCHANGED_inst

-----------------------------------------------------------------------------
(* decodeResponse, and resolveDns from its await on *)
\* variant: the status is not looked at
decodeResponse_noStatusCheck(r) ==
  IF r.null
    THEN [parser |-> <<>>, res |-> RejectedD(Err("no upstream result"))]
  ELSE [parser |-> <<r.body>>,
        res |-> IF r.body.wf THEN FulfilledD(Data(decode(r.body), r.body))
                ELSE RejectedD(Err("decode error"))]

decodeResponse(r) ==
  IF r.null
    THEN [parser |-> <<>>, res |-> RejectedD(Err("no upstream result"))]
  ELSE IF ~ok(r)
    THEN [parser |-> <<>>, res |-> RejectedD(HttpErr(r))]
  ELSE [parser |-> <<r.body>>,
        res |-> IF r.body.wf THEN FulfilledD(Data(decode(r.body), r.body))
                ELSE RejectedD(Err("decode error"))]

Decode ==
  /\ pc = "decode"
  /\ IF entry # "decodeResponse" /\ upRes.st = "rejected"
       THEN /\ dnsRes' = RejectedD(upRes.err)
            /\ UNCHANGED parsed
       ELSE LET d == decodeResponse(IF entry = "decodeResponse"
                                      THEN param.response ELSE upRes.val) IN
            /\ dnsRes' = d.res
            /\ parsed' = parsed \o d.parser
  /\ pc' = IF entry = "RethinkModule" THEN "return" ELSE "done"
  /\ UNCHANGED <<upstreams, attempts, sentinel, netlog, replies, upRes, response>>
  /\ UNCHANGED_inst

\* RethinkModule: response.data = await ..., or the catch block; return
Return ==
  /\ pc = "return"
  /\ response' = IF dnsRes.st = "fulfilled" THEN DataResponse(dnsRes.val)
                 ELSE errResponse
  /\ pc' = "done"
  /\ UNCHANGED <<upstreams, attempts, sentinel, netlog, replies, upRes, parsed,
                  dnsRes>>
  /\ UNCHANGED_inst

-----------------------------------------------------------------------------
Entries == {"RethinkModule", "resolveDns", "resolveDnsUpstream", "decodeResponse"}

Next ==
  \/ \E e \in Entries : \E p \in Params(e) : NewCall(e, p)
  \/ EndCall
  \/ LazyHttp2
  \/ \E imported \in BOOLEAN : LazyNodeUtil(imported)
  \/ \E imported \in BOOLEAN : LazyTransport(imported)
  \/ CallResolveDns
  \/ CallResolveDnsUpstream
  \/ \E o \in TransportOutcomes("udp") : UdpSettle(o)
  \/ \E o \in TransportOutcomes("tcp") : TcpSettle(o)
  \/ \E i \in 1..Len(attempts) : \E o \in AttemptOutcomes(i) : SettleAttempt(i, o)
  \/ Decode
  \/ Return

Spec == Init /\ [][Next]_vars

-----------------------------------------------------------------------------
(* Concurrent RethinkModule calls inside lazyInit: a caller runs from one   *)
(* await to the next without interruption, and other callers run while it  *)
(* awaits an import.                                                       *)

\* lazyInit from its block `from` on (1 http2, 2 nodeUtil, 3 transport),
\* the fields being h, n, t: the await it suspends at, or "ready" when it
\* runs to its end
lazyInit(from, h, n, t) ==
  IF ~isNode THEN "ready"
  ELSE IF from <= 1 /\ ~h THEN "await_http2"
  ELSE IF from <= 2 /\ ~n THEN "await_nodeUtil"
  ELSE IF from <= 3 /\ ~t THEN "await_transport"
  ELSE "ready"

UNCHANGED_lazy ==
  UNCHANGED <<env, preferredDohResolvers, calls, pc, entry, param, upstreams,
              attempts, sentinel, netlog, replies, upRes, parsed, dnsRes,
              response, h2>>

\* a caller enters RethinkModule: await this.lazyInit()
RethinkModule(c) ==
  /\ lz.at[c] = "idle"
  /\ lz' = [lz EXCEPT !.at[c] = lazyInit(1, http2, nodeUtil, transport)]
  /\ UNCHANGED <<http2, nodeUtil, transport>>
  /\ UNCHANGED_lazy

\* this.http2 = await import("http2"), and on to the next await
ImportedHttp2(c) ==
  /\ lz.at[c] = "await_http2"
  /\ http2' = TRUE
  /\ lz' = [lz EXCEPT !.at[c] = lazyInit(2, TRUE, nodeUtil, transport),
                      !.assigned.http2 = @ + 1]
  /\ UNCHANGED <<nodeUtil, transport>>
  /\ UNCHANGED_lazy

\* this.nodeUtil = await import("../../core/node/util.js"), or the import
\* rejects and lazyInit throws
ImportedNodeUtil(c, imported) ==
  /\ lz.at[c] = "await_nodeUtil"
  /\ IF imported
       THEN /\ nodeUtil' = TRUE
            /\ lz' = [lz EXCEPT !.at[c] = lazyInit(3, http2, TRUE, transport),
                                !.assigned.nodeUtil = @ + 1]
       ELSE /\ UNCHANGED nodeUtil
            /\ lz' = [lz EXCEPT !.at[c] = "thrown"]
  /\ UNCHANGED <<http2, transport>>
  /\ UNCHANGED_lazy

\* this.transport = new (await import(...)).Transport(plainOldDnsIp, 53),
\* or the import rejects and lazyInit throws
ImportedTransport(c, imported) ==
  /\ lz.at[c] = "await_transport"
  /\ IF imported
       THEN /\ transport' = TRUE
            /\ lz' = [lz EXCEPT !.at[c] = "ready",
                                !.assigned.transport = @ + 1,
                                !.constructed = @ + 1]
       ELSE /\ UNCHANGED transport
            /\ lz' = [lz EXCEPT !.at[c] = "thrown"]
  /\ UNCHANGED <<http2, nodeUtil>>
  /\ UNCHANGED_lazy

\* the caller's RethinkModule call comes to its end
Returned(c) ==
  /\ lz.at[c] \in {"ready", "thrown"}
  /\ lz' = [lz EXCEPT !.at[c] = "idle"]
  /\ UNCHANGED <<http2, nodeUtil, transport>>
  /\ UNCHANGED_lazy

NextLazy ==
  \/ \E c \in Callers : RethinkModule(c)
  \/ \E c \in Callers : ImportedHttp2(c)
  \/ \E c \in Callers : \E imported \in BOOLEAN : ImportedNodeUtil(c, imported)
  \/ \E c \in Callers : \E imported \in BOOLEAN : ImportedTransport(c, imported)
  \/ \E c \in Callers : Returned(c)

SpecLazy == Init /\ [][NextLazy]_vars

-----------------------------------------------------------------------------
(* One doh2 call, with the events of its connection (c) and of its stream  *)
(* (req).  An event and the handler registered for it are one step; an     *)
(* event without a handler changes the connection or the stream only.      *)

\* the instance doh2 is called on: fresh, after a lazyInit that failed at
\* the second or at the third import, or after a complete one
InitDoh2 ==
  /\ env \in [runtime : {"node", "workers", "deno"},
              dohResolver : {EmptyStr, PrimaryUrl},
              secondaryDohResolver : {EmptyStr, SecondaryUrl}]
  /\ \E fields \in IF isNode
                     THEN {<<FALSE, FALSE, FALSE>>, <<TRUE, FALSE, FALSE>>,
                           <<TRUE, TRUE, FALSE>>, <<TRUE, TRUE, TRUE>>}
                     ELSE {<<FALSE, FALSE, FALSE>>} :
       /\ http2 = fields[1]
       /\ nodeUtil = fields[2]
       /\ transport = fields[3]
  /\ preferredDohResolvers = <<env.dohResolver, env.secondaryDohResolver>>
  /\ calls = 0
  /\ pc = "idle"
  /\ entry = "none"
  /\ param = NoParam
  /\ upstreams = Arr(<<>>)
  /\ attempts = <<>>
  /\ sentinel = "none"
  /\ netlog = <<>>
  /\ replies = <<>>
  /\ upRes = Pending
  /\ parsed = <<>>
  /\ dnsRes = NoDnsRes
  /\ response = NoResponse
  /\ lz = NoLazy
  /\ h2 = NoDoh2

UNCHANGED_doh2 ==
  UNCHANGED <<env, http2, nodeUtil, transport, preferredDohResolvers, calls,
              pc, entry, param, upstreams, attempts, sentinel, netlog,
              replies, upRes, parsed, dnsRes, response, lz>>

Event(kind, msg, chunk) == [kind |-> kind, msg |-> msg, chunk |-> chunk]

ConnErrors == {"ECONNRESET"}
StreamErrors == {"ERR_HTTP2_STREAM_ERROR"}
Statuses == {200, 503}
Chunks == {<<7>>, <<8, 9>>}

\* variant: a later resolve or reject replaces the outcome
settle_last(p, outcome) == outcome

\* resolve / reject of new Promise: the first call settles the promise,
\* later calls do nothing
settle(p, outcome) == IF p.st = "pending" THEN outcome ELSE p

\* bufutil.concatBuf
RECURSIVE concatBuf(_)
concatBuf(b) == IF b = <<>> THEN <<>> ELSE Head(b) \o concatBuf(Tail(b))

\* doh2 up to its first await: it throws when http2 or nodeUtil is missing
doh2(rurl, method, query) ==
  /\ h2.pc = "idle"
  /\ IF ~http2 \/ ~nodeUtil
       THEN h2' = [h2 EXCEPT !.pc = "threw",
                             !.p = RejectedWith("h2 / node-util not setup, bailing")]
       ELSE h2' = [h2 EXCEPT !.pc = "arrayBuffer",
                             !.request = dnsreq(rurl, method, query)]
  /\ UNCHANGED_doh2

\* the executor of new Promise, run when request.arrayBuffer() is there:
\* connect, c.on("error"), c.request, req.on("response"), req.on("error"),
\* req.end(upstreamQuery)
Executor ==
  /\ h2.pc = "arrayBuffer"
  /\ h2' = [h2 EXCEPT !.pc = "executed",
                      !.c = "open",
                      !.req = "open",
                      !.ops = <<"connect", "c.on:error", "request",
                                "req.on:response", "req.on:error", "req.end">>,
                      !.handlers = {"c:error", "req:response", "req:error"},
                      !.wire = doh2Wire(h2.request)]
  /\ UNCHANGED_doh2

\* c emits "error": reject(err.message)
ConnError(msg) ==
  /\ h2.c \in {"open", "closing"}
  /\ h2' = [h2 EXCEPT !.c = "errored",
                      !.events = Append(@, Event("c:error", msg, <<>>)),
                      !.ops = Append(@, "reject"),
                      !.p = settle(@, RejectedWith(msg))]
  /\ UNCHANGED_doh2

\* req emits "error": reject(err.message)
StreamError(msg) ==
  /\ h2.req \in {"open", "headers"}
  /\ h2' = [h2 EXCEPT !.req = "errored",
                      !.events = Append(@, Event("req:error", msg, <<>>)),
                      !.ops = Append(@, "reject"),
                      !.p = settle(@, RejectedWith(msg))]
  /\ UNCHANGED_doh2

\* req emits "response": the handler registers the data and end handlers
StreamResponse(status) ==
  /\ h2.req = "open"
  /\ h2.c # "errored"
  /\ h2' = [h2 EXCEPT !.req = "headers",
                      !.headers = status,
                      !.events = Append(@, Event("req:response", "", <<>>)),
                      !.ops = @ \o <<"req.on:data", "req.on:end">>,
                      !.handlers = @ \cup {"req:data", "req:end"}]
  /\ UNCHANGED_doh2

\* req emits "data": b.push(chunk)
StreamData(chunk) ==
  /\ h2.req = "headers"
  /\ h2.c # "errored"
  /\ Len(h2.b) < MaxChunks
  /\ h2' = [h2 EXCEPT !.events = Append(@, Event("req:data", "", chunk)),
                      !.b = Append(@, chunk)]
  /\ UNCHANGED_doh2

\* the stream ends without an error; when the end handler is registered:
\* concatBuf, transformPseudoHeaders, util.safeBox(c.close), resolve
StreamEnd ==
  /\ h2.req \in {"open", "headers"}
  /\ h2.c # "errored"
  /\ IF "req:end" \in h2.handlers
       THEN h2' = [h2 EXCEPT !.req = "ended",
                             !.c = "closing",
                             !.events = Append(@, Event("req:end", "", <<>>)),
                             !.ops = @ \o <<"c.close", "resolve">>,
                             !.p = settle(@, Resolved(h2.headers, concatBuf(h2.b)))]
       ELSE h2' = [h2 EXCEPT !.req = "ended",
                             !.events = Append(@, Event("req:end", "", <<>>))]
  /\ UNCHANGED_doh2

NextDoh2 ==
  \/ \E rurl \in {PrimaryUrl, UserUrl} : \E method \in {"GET", "POST"} :
       \E query \in Queries : doh2(rurl, method, query)
  \/ Executor
  \/ \E msg \in ConnErrors : ConnError(msg)
  \/ \E msg \in StreamErrors : StreamError(msg)
  \/ \E status \in Statuses : StreamResponse(status)
  \/ \E chunk \in Chunks : StreamData(chunk)
  \/ StreamEnd

SpecDoh2 == InitDoh2 /\ [][NextDoh2]_vars

\* doh2 runs on when request.arrayBuffer() is there; the events of the
\* connection and of the stream are the peer's and need not happen
SpecDoh2Fair == SpecDoh2 /\ WF_vars(Executor)

-----------------------------------------------------------------------------
(* Properties *)
ViaResolveDns == entry \in {"RethinkModule", "resolveDns"}
ViaUpstream == entry \in {"RethinkModule", "resolveDns", "resolveDnsUpstream"}

\* the synchronous part of resolveDnsUpstream has run in the current call
Upstreamed ==
  /\ ViaUpstream
  /\ pc \in {"udp", "tcp", "race", "decode", "return", "done"}
  /\ ~response.thrown

Settled(a) == a.p.st # "pending"
Succeeded(a) == a.p.st = "fulfilled" /\ a.p.val.status = 200 /\ a.p.val.body.wf
FulfilledAt == {i \in 1..Len(attempts) : attempts[i].p.st = "fulfilled"}

\* C1: resolveDns over raced DoH endpoints: once the call is over, if some
\* endpoint settled with a success-status response whose body parses, then
\* resolveDns returned {dnsPacket, dnsBuffer} decoded from a success-status
\* response, whatever the other endpoints did.
C1_FirstSuccessfulAnswer ==
  (/\ ViaResolveDns
   /\ sentinel = "raced"
   /\ pc = "done"
   /\ \E i \in 1..Len(attempts) : Succeeded(attempts[i]))
  => /\ dnsRes.st = "fulfilled"
     /\ \E i \in 1..Len(attempts) :
          /\ Succeeded(attempts[i])
          /\ dnsRes.val = Data(decode(attempts[i].p.val.body), attempts[i].p.val.body)

\* C2: racing correctness. When every attempt of a race has settled and
\* exactly one of them fulfilled, the promise resolveDnsUpstream returned is
\* fulfilled with exactly that attempt's response; and once that promise has
\* settled, no later settlement of an attempt changes it.
C2_ExactlyOneWins ==
  (/\ ViaUpstream
   /\ sentinel = "raced"
   /\ \A i \in 1..Len(attempts) : Settled(attempts[i])
   /\ Cardinality(FulfilledAt) = 1)
  => \A i \in FulfilledAt : upRes = Fulfilled(attempts[i].p.val)

C2_RacingCorrectness ==
  /\ []C2_ExactlyOneWins
  /\ [][(upRes.st # "pending" /\ pc' # "idle") => upRes' = upRes]_vars

C2_Witness ==
  /\ entry = "resolveDnsUpstream"
  /\ sentinel = "raced"
  /\ Len(attempts) = 2
  /\ attempts[1].p.st = "rejected"
  /\ attempts[2].p.st = "fulfilled"
  /\ upRes = Fulfilled(attempts[2].p.val)

\* C3: all-fail propagation. When every attempt of a race has rejected (or
\* only the "no upstream" sentinel took part), resolveDnsUpstream rejects
\* with the aggregate error, resolveDns fails with it, the parser is not
\* called and no packet or buffer is returned.
C3_AllFailPropagation ==
  (/\ ViaUpstream
   /\ sentinel = "raced"
   /\ \A i \in 1..Len(attempts) : attempts[i].p.st = "rejected")
  => /\ upRes = Rejected(Err("AggregateError"))
     /\ dnsRes.st # "fulfilled"
     /\ dnsRes.val = NoData
     /\ parsed = <<>>
     /\ response.data = NoData
     /\ (ViaResolveDns /\ pc \in {"return", "done"})
          => dnsRes = RejectedD(Err("AggregateError"))
     /\ (entry = "RethinkModule" /\ pc = "done") => response = errResponse

C3_Witness ==
  /\ entry = "RethinkModule"
  /\ sentinel = "raced"
  /\ Len(attempts) = 2
  /\ \A i \in 1..Len(attempts) : attempts[i].p.st = "rejected"
  /\ response = errResponse

PlainOps == SelectSeq(netlog, LAMBDA n : n.kind \in {"udp", "tcp"})
TcpOps == SelectSeq(netlog, LAMBDA n : n.kind = "tcp")

\* the UDP query of the current call came back with a truncated answer
UdpTruncated ==
  /\ Len(replies) >= 1
  /\ ~replies[1].threw
  /\ replies[1].ans.src = "udp"
  /\ replies[1].ans.tc

\* C4: truncation escalation. Whenever the UDP query returned an answer with
\* the truncation flag set, exactly one TCP query has been issued, with the
\* bytes that were sent over UDP, and the outcome of the path is built from
\* what the TCP query returned (its answer, or 503 when it returned none,
\* or its error), never from the truncated UDP answer.
C4_TruncationEscalation ==
  (ViaUpstream /\ UdpTruncated)
  => /\ Len(netlog) = 2
     /\ netlog[1].kind = "udp"
     /\ netlog[2].kind = "tcp"
     /\ netlog[2].bytes = netlog[1].bytes
     /\ netlog[1].bytes = param.query
     /\ (upRes.st = "pending") = (Len(replies) = 1)
     /\ upRes.st # "pending" =>
          /\ upRes.val.body.src # "udp"
          /\ (upRes.st = "rejected") = replies[2].threw
          /\ (~replies[2].threw /\ replies[2].ans.src = "tcp")
               => upRes = Fulfilled(Response(200, replies[2].ans))
          /\ (~replies[2].threw /\ replies[2].ans.src = "none")
               => upRes.st = "fulfilled" /\ upRes.val.status = 503

C4_Witness ==
  /\ UdpTruncated
  /\ Len(replies) = 2
  /\ replies[2].ans.src = "tcp"
  /\ upRes.st = "fulfilled"
  /\ upRes.val.body = replies[2].ans
  /\ param.query = <<2, 3>>

\* C5: no double TCP. A query causes at most two transport calls, first UDP
\* and then at most one TCP; a TCP query is in flight or done only after the
\* UDP query has returned, and only if it returned a truncated answer.
C5_NoDoubleTcp ==
  ViaUpstream
  => /\ Len(PlainOps) <= 2
     /\ Len(TcpOps) <= 1
     /\ PlainOps # <<>> => PlainOps[1].kind = "udp"
     /\ Len(PlainOps) = 2 => PlainOps[2].kind = "tcp"
     /\ TcpOps # <<>> => UdpTruncated
     /\ Len(replies) <= Len(PlainOps)

C5_Witness ==
  /\ Len(replies) = 1
  /\ ~replies[1].threw
  /\ replies[1].ans.src = "udp"
  /\ ~replies[1].ans.tc
  /\ upRes.st = "fulfilled"
  /\ TcpOps = <<>>
  /\ pc = "done"

\* determineDohResolvers has returned in the current call
Selected ==
  /\ ViaResolveDns
  /\ pc \in {"udp", "tcp", "race", "decode", "return", "done"}
  /\ ~response.thrown

UserGiven == \E i \in 1..Len(param.userDnsResolverUrl) : param.userDnsResolverUrl[i] # " "

\* C6: selector priority. determineDohResolvers returns the empty array
\* whenever the transport is set, even with a user resolver URL; otherwise
\* exactly [user URL] when a non-blank user URL is given; otherwise
\* [primary, secondary] on Workers.
C6_SelectorPriority ==
  Selected
  => /\ transport => upstreams = Arr(<<>>)
     /\ (~transport /\ UserGiven)
          => upstreams.kind = "array" /\ upstreams.val = <<param.userDnsResolverUrl>>
     /\ (~transport /\ ~UserGiven /\ env.runtime = "workers")
          => /\ upstreams.kind = "array"
             /\ upstreams.val = <<env.dohResolver, env.secondaryDohResolver>>

C6_Witness ==
  /\ Selected
  /\ transport
  /\ UserGiven
  /\ upstreams = Arr(<<>>)
  /\ netlog # <<>>

\* C7: default endpoint rule. With no transport, no user resolver URL and an
\* environment other than Workers, determineDohResolvers returns an ordered
\* set holding exactly the default endpoint, and resolveDnsUpstream then
\* dispatches exactly one attempt, addressed to that endpoint.
C7_DefaultEndpoint ==
  (/\ Selected
   /\ ~transport
   /\ ~UserGiven
   /\ env.runtime # "workers"
   /\ env.dohResolver = PrimaryUrl
   /\ param.method \in {"GET", "POST"})
  => /\ upstreams.kind = "array"
     /\ upstreams.val = <<env.dohResolver>>
     /\ Len(attempts) = 1
     /\ attempts[1].rurl = env.dohResolver

DohOps == SelectSeq(netlog, LAMBDA n : n.kind \in {"fetch", "doh2"})

BadMethod == ViaUpstream /\ param.method \notin {"GET", "POST"}

\* the first non-blank element the loop over resolverUrls meets parses as a URL
FirstNonBlankIsUrl(a) ==
  LET nb == SelectSeq(iterate(a), LAMBDA r : \E i \in 1..Len(r) : r[i] # " ")
  IN nb # <<>> /\ validURL(nb[1])

\* C8, as stated: for a request whose method is neither GET nor POST no
\* network operation at all is started, on the DoH path and on the
\* plain-transport path alike.
C8_MethodGuardEverywhere == BadMethod => netlog = <<>>

\* C8, amended: for a request whose method is neither GET nor POST, no
\* fetch and no doh2 exchange is ever dispatched and, on the DoH path,
\* resolveDnsUpstream rejects and resolveDns fails, with the protocol error
\* "get/post requests only" when the first non-blank resolver URL parses;
\* the plain-transport path does not look at the method and issues its UDP
\* query as for any other request.
C8_MethodGuardDoh ==
  (BadMethod /\ Upstreamed)
  => /\ DohOps = <<>>
     /\ attempts = <<>>
     /\ Len(upstreams.val) # 0 =>
          /\ netlog = <<>>
          /\ upRes.st = "rejected"
          /\ dnsRes.st # "fulfilled"
          /\ parsed = <<>>
          /\ FirstNonBlankIsUrl(upstreams)
               => upRes.err = Err("get/post requests only")
     /\ (Len(upstreams.val) = 0 /\ transport) =>
          /\ netlog # <<>>
          /\ netlog[1] = NetOp("udp", "dns", param.query)

C8_Witness ==
  /\ BadMethod
  /\ Upstreamed
  /\ Len(upstreams.val) = 2
  /\ upRes = Rejected(Err("get/post requests only"))
  /\ netlog = <<>>
  /\ pc = "done"

\* the response decodeResponse was called with in the current call, if any
Decoded ==
  /\ pc \in {"return", "done"}
  /\ \/ entry = "decodeResponse"
     \/ ViaResolveDns /\ upRes.st = "fulfilled"
DecodeArg == IF entry = "decodeResponse" THEN param.response ELSE upRes.val

\* C9: decode failure isolation. dnsutil.decode is called only with the body
\* of a response whose status is a success; a missing response fails with
\* "no upstream result" and a non-success status (the transport path's 503
\* included) fails with an error carrying the status code and text, both
\* without a call of the parser and without a packet or buffer.
C9_DecodeIsolation ==
  /\ \A i \in 1..Len(parsed) :
       /\ Decoded
       /\ ~DecodeArg.null
       /\ DecodeArg.status >= 200 /\ DecodeArg.status <= 299
       /\ parsed[i] = DecodeArg.body
  /\ (Decoded /\ DecodeArg.null)
       => dnsRes = RejectedD(Err("no upstream result")) /\ parsed = <<>>
  /\ (Decoded /\ ~DecodeArg.null /\ DecodeArg.status \notin 200..299)
       => /\ dnsRes.st = "rejected"
          /\ dnsRes.err.status = DecodeArg.status
          /\ dnsRes.err.statusText = DecodeArg.statusText
          /\ dnsRes.val = NoData
          /\ parsed = <<>>

C9_Witness ==
  /\ ViaResolveDns
  /\ Decoded
  /\ replies # <<>>
  /\ upRes.val.status = 503
  /\ dnsRes.err.status = 503
  /\ dnsRes.err.statusText = "Service Unavailable"
  /\ parsed = <<>>

\* C10: every failure inside the core, lazy initialisation included,
\* surfaces from RethinkModule as a structured error response and never as a
\* thrown exception; a response of a failure carries no answer, and a
\* response carries answer data only when resolveDns succeeded.
C10_StructuredErrorOnly ==
  (entry = "RethinkModule" /\ pc = "done")
  => /\ response.returned
     /\ ~response.thrown
     /\ response.isException => response.data = NoData
     /\ response.data # NoData => dnsRes.st = "fulfilled"
     /\ dnsRes.st # "fulfilled" => response.isException

\* C11: one strategy per resolution. In a resolution through resolveDns
\* either the plain transport is used or DoH attempts are dispatched, never
\* both; and whenever resolveDnsUpstream takes its plain-transport branch
\* (util.emptyArray(resolverUrls)) this.transport is set.
C11_OneStrategy ==
  (ViaResolveDns /\ Upstreamed)
  => /\ ~(PlainOps # <<>> /\ (DohOps # <<>> \/ attempts # <<>>))
     /\ Len(upstreams.val) = 0 => transport

\* the transport's last query of the current call came back with no answer
\* (and no error), and no further query is under way
NoTransportAnswer ==
  /\ replies # <<>>
  /\ Len(replies) = Len(PlainOps)
  /\ ~replies[Len(replies)].threw
  /\ replies[Len(replies)].ans.src = "none"

\* C18: when the transport produces no answer at all (UDP yields none, or
\* UDP is truncated and the TCP retry yields none), resolveDnsUpstream does
\* not throw but is fulfilled with the 503 response; decodeResponse turns it
\* into a failure carrying status 503, the parser is not called and no
\* answer is returned.
C18_NoAnswerIs503 ==
  (ViaUpstream /\ NoTransportAnswer)
  => /\ upRes.st = "fulfilled"
     /\ ~upRes.val.null
     /\ upRes.val.status = 503
     /\ upRes.val.statusText = "Service Unavailable"
     /\ upRes.val.body.src = "none"
     /\ parsed = <<>>
     /\ dnsRes.st # "fulfilled"
     /\ dnsRes.val = NoData
     /\ (ViaResolveDns /\ pc \in {"return", "done"})
          => dnsRes.st = "rejected" /\ dnsRes.err.status = 503
     /\ response.data = NoData

C18_Witness ==
  /\ entry = "RethinkModule"
  /\ Len(replies) = 2
  /\ replies[1].ans.tc
  /\ NoTransportAnswer
  /\ upRes.val.status = 503
  /\ dnsRes.err.status = 503
  /\ response = errResponse

NonBlank(r) == \E i \in 1..Len(r) : r[i] # " "
NonBlanks(a) == SelectSeq(a.val, NonBlank)

\* the current call raced a list of endpoint URLs, blank ones possibly
\* among them, for a GET or POST request
RacedList ==
  /\ Upstreamed
  /\ upstreams.kind = "array"
  /\ upstreams.val # <<>>
  /\ param.method \in {"GET", "POST"}
  /\ \A i \in 1..Len(upstreams.val) :
       NonBlank(upstreams.val[i]) => validURL(upstreams.val[i])

\* C19: a blank endpoint URL is skipped. For every list of endpoint URLs,
\* blank ones included, exactly one attempt is dispatched per non-blank URL,
\* in order, and none for a blank one; the call does not fail at the blank
\* URL but goes on to the race; and if an attempt fulfils, the race is
\* fulfilled with the response of a fulfilled attempt.
C19_BlankSkipped ==
  RacedList
  => /\ sentinel = "raced"
     /\ Len(attempts) = Len(NonBlanks(upstreams))
     /\ \A i \in 1..Len(attempts) : attempts[i].rurl = NonBlanks(upstreams)[i]
     /\ Len(DohOps) = Cardinality({i \in 1..Len(attempts) :
                                     attempts[i].p.err.msg # "h2 / node-util not setup, bailing"})
     /\ PlainOps = <<>>
     /\ FulfilledAt # {} =>
          /\ upRes.st = "fulfilled"
          /\ \E i \in FulfilledAt : upRes = Fulfilled(attempts[i].p.val)

C19_Witness ==
  /\ RacedList
  /\ upstreams.val = <<BlankStr, PrimaryUrl>>
  /\ Len(attempts) = 1
  /\ attempts[1].p.st = "fulfilled"
  /\ upRes = Fulfilled(attempts[1].p.val)

DohVia2 == {i \in 1..Len(attempts) : attempts[i].client = "doh2"}

LazyInitDone ==
  /\ entry = "RethinkModule"
  /\ pc \in {"resolveDns", "udp", "tcp", "race", "decode", "return", "done"}
  /\ ~response.thrown

OnWire == {i \in 1..Len(attempts) : attempts[i].p.err.msg # "h2 / node-util not setup, bailing"}

\* C14: for a GET query every dispatched attempt carries the query as
\* GET {endpoint-path}?dns={base64url(query)} with no body, whichever client
\* performs it.
C14_GetOnTheWire ==
  \A i \in OnWire :
    attempts[i].method = "GET"
    => attempts[i].wire =
         [method |-> "GET",
          path |-> pathname(attempts[i].rurl) \o <<"?", "d", "n", "s", "=">>
                   \o bytesToBase64Url(attempts[i].bytes),
          body |-> <<>>]


\* C15: under any interleaving of concurrent RethinkModule calls the
\* transport is constructed at most once and each capability field is
\* assigned at most once.
C15_InitialisedOnce ==
  /\ lz.constructed <= 1
  /\ lz.assigned.http2 <= 1
  /\ lz.assigned.nodeUtil <= 1
  /\ lz.assigned.transport <= 1


Did(op) == \E i \in 1..Len(h2.ops) : h2.ops[i] = op

\* C12: once a doh2 attempt has settled, by successful completion, by a
\* stream-level error or by a connection-level error, close has been
\* invoked on the connection opened for the attempt.
C12_ClosedOnSettle ==
  (Did("connect") /\ h2.p.st # "pending") => Did("c.close")

\* C13: the query bytes are written to the stream (req.end) only after the
\* stream's response, data, end and error handlers have been registered: no
\* data or end handler is registered after the write.
C13_HandlersBeforeWrite ==
  \A i \in 1..Len(h2.ops) : \A j \in 1..Len(h2.ops) :
    (h2.ops[i] = "req.end" /\ j > i)
    => h2.ops[j] \notin {"req.on:data", "req.on:end"}

\* the terminal events seen so far: a connection error, a stream error, or
\* the end of the stream after the response headers
Terminals ==
  {i \in 1..Len(h2.events) :
     \/ h2.events[i].kind \in {"c:error", "req:error"}
     \/ /\ h2.events[i].kind = "req:end"
        /\ \E j \in 1..(i - 1) : h2.events[j].kind = "req:response"}

FirstTerminal == CHOOSE i \in Terminals : \A j \in Terminals : i <= j

\* the bytes of the data events before the i-th event
DataBefore(i) ==
  LET data == SelectSeq(SubSeq(h2.events, 1, i - 1),
                        LAMBDA e : e.kind = "req:data")
  IN concatBuf([k \in 1..Len(data) |-> data[k].chunk])

OutcomeOfFirstTerminal ==
  h2.pc = "executed"
  => IF Terminals = {} THEN h2.p = Unsettled
     ELSE IF h2.events[FirstTerminal].kind = "req:end"
       THEN h2.p = Resolved(h2.headers, DataBefore(FirstTerminal))
       ELSE h2.p = RejectedWith(h2.events[FirstTerminal].msg)

\* C16: a doh2 attempt completes exactly once: its outcome is the one of
\* the first terminal event (a connection error, a stream error, or the end
\* of the stream after the response headers), and no later event changes it.
C16_CompletesOnce ==
  /\ []OutcomeOfFirstTerminal
  /\ [][h2.p.st # "pending" => h2.p' = h2.p]_vars

\* a success followed by a connection error, and a failure followed by
\* another error
C16_Witness ==
  /\ h2.p.st = "fulfilled"
  /\ h2.p.rb = <<7, 8, 9>>
  /\ Len(h2.events) > FirstTerminal
  /\ h2.events[Len(h2.events)].kind = "c:error"

TerminalSeen ==
  \E i \in 1..Len(h2.events) :
    h2.events[i].kind \in {"c:error", "req:error", "req:end"}

\* C17: for every event sequence that reaches a terminal event (a
\* connection-level error, a stream-level error, or the end of the stream)
\* the attempt eventually settles as a success or a failure.
C17_NeverHangs == TerminalSeen ~> (h2.p.st # "pending")

====
